---- MODULE Spec2Model ----
(***************************************************************************)
(* A model of options-insight's data funnel:                               *)
(*   - FinnhubAPI.makeRequest        (src/src/finnhub.js, retry loop)      *)
(*   - getMarketContext              (src/src/finnhub.js)                  *)
(*   - getEarningsOpportunities      (src/src/finnhub.js)                  *)
(*   - generateTradingIdeas          (src/src/gemini.js)                   *)
(*   - validateAnalysis, parseAnalysisResponse (src/src/gemini.js)         *)
(*   - calculatePrescreenScore, calculateQualityScore (src/src/finnhub.js) *)
(* Each function is one state machine over its own variables; SpecMR,      *)
(* SpecCtx, SpecPipe, SpecGen, SpecVal, SpecParse, SpecPs and SpecQs run   *)
(* one call of each, Spec runs any.                                        *)
(***************************************************************************)
EXTENDS Integers, Sequences, FiniteSets, TLC

VARIABLES
    \* ---- FinnhubAPI.makeRequest ----
    mrPc,        \* "idle" | "fetch" | "backoff" | "returned" | "rejected"
    retries,     \* the retries option of this call
    baseDelayMs, \* the baseDelayMs option of this call
    delay,       \* this.delay, set by the constructor
    attempt,     \* the loop variable
    lastError,   \* the local lastError
    mrLog,       \* the outcome of every fetch issued so far, in order
    delays,      \* every backoff delay waited so far, in order
    mrPaced,     \* whether the this.delay pause after a 2xx response was taken
    mrResult,    \* what the call settled with: a body or an error
    \* ---- getMarketContext ----
    ctxPc,       \* "idle" | "fetching" | "responded" | "parsed" | "returned" | "rejected"
    ctxFetches,  \* number of fetch calls issued
    ctxResponse, \* vixResponse
    ctxBody,     \* vixData
    ctxResult,   \* the MarketContext returned
    \* ---- generateTradingIdeas ----
    genPc,         \* "idle" | "batchCall" | "fallback" | "singleCall" | "returned"
    opportunities, \* the opportunities argument: a sequence of [symbol]
    genMode,       \* "batch" until the catch block of generateTradingIdeas runs
    genCalls,      \* every model.generateContent call issued, with its outcome
    genInFlight,   \* generateContent calls issued and not yet settled
    genIndex,      \* position of the fallback loop in opportunities
    genReply,      \* rawBatchResponse: the delimiter texts of its sections
    content,       \* the list returned: entries [opportunity, analysis]
    \* ---- getEarningsOpportunities ----
    pipePc,             \* "idle" | "calendarFetch" | "calendarJson" | "bulkCall" | "returned" | "rejected"
    clock,              \* the latest reading of the clock (new Date()), in ticks
    fromDate,           \* the reading taken on entry
    calFetches,         \* number of fetch calls issued for the calendar
    calResponse,        \* response of the calendar fetch
    earningsCalendar,   \* data.earningsCalendar || []
    universeFiltered,
    timeWindowFiltered,
    scored,             \* the events with daysToEarnings and prescreenScore, unsorted
    prescreened,
    bulkCalls,          \* the symbols argument of every getBulkVolatilityAnalysis call
    bulk,               \* what getBulkVolatilityAnalysis resolved with
    pipeResult,         \* the list returned
    pipeError,          \* the error the run rejected with
    \* ---- validateAnalysis ----
    valPc,       \* "idle" | "returned"
    analysis,    \* the analysis argument
    validation,  \* the object returned: [isValid, issues]
    \* ---- parseAnalysisResponse ----
    parsePc,     \* "idle" | "returned"
    responseText, \* the rawResponse argument: a string of text pieces, or undefined
    parsed,      \* the analysis returned
    \* ---- calculatePrescreenScore ----
    psPc,        \* "idle" | "returned"
    psEvent,     \* the event argument
    psDays,      \* the daysToEarnings argument
    psScore,     \* the score returned
    \* ---- calculateQualityScore ----
    qsPc,          \* "idle" | "returned"
    qsOpportunity, \* the opportunity argument
    qsScore        \* the score returned

mrVars == <<mrPc, retries, baseDelayMs, delay, attempt, lastError, mrLog, delays,
            mrPaced, mrResult>>

ctxVars == <<ctxPc, ctxFetches, ctxResponse, ctxBody, ctxResult>>

genVars == <<genPc, opportunities, genMode, genCalls, genInFlight, genIndex,
             genReply, content>>

pipeVars == <<pipePc, clock, fromDate, calFetches, calResponse, earningsCalendar,
              universeFiltered, timeWindowFiltered, scored, prescreened, bulkCalls,
              bulk, pipeResult, pipeError>>

valVars == <<valPc, analysis, validation>>

parseVars == <<parsePc, responseText, parsed>>

psVars == <<psPc, psEvent, psDays, psScore>>

qsVars == <<qsPc, qsOpportunity, qsScore>>

vars == <<mrVars, ctxVars, genVars, pipeVars, valVars, parseVars, psVars, qsVars>>

\* What a step of each function leaves alone: the other functions' variables.
MRFrame == UNCHANGED <<ctxVars, genVars, pipeVars, valVars, parseVars, psVars, qsVars>>
CtxFrame == UNCHANGED <<mrVars, genVars, pipeVars, valVars, parseVars, psVars, qsVars>>
GenFrame == UNCHANGED <<mrVars, ctxVars, pipeVars, valVars, parseVars, psVars, qsVars>>
PipeFrame == UNCHANGED <<mrVars, ctxVars, genVars, valVars, parseVars, psVars, qsVars>>
ValFrame == UNCHANGED <<mrVars, ctxVars, genVars, pipeVars, parseVars, psVars, qsVars>>
ParseFrame == UNCHANGED <<mrVars, ctxVars, genVars, pipeVars, valVars, psVars, qsVars>>
PsFrame == UNCHANGED <<mrVars, ctxVars, genVars, pipeVars, valVars, parseVars, qsVars>>
QsFrame == UNCHANGED <<mrVars, ctxVars, genVars, pipeVars, valVars, parseVars, psVars>>

---------------------------------------------------------------------------
\* Bounds of the model.
MaxRetries == 3

MaxVix == 100

MaxOpps == 3

MaxSections == 3

\* Resolution of the clock: ticks per day. Dates are whole days.
TicksPerDay == 2

\* Latest reading of the clock on entry, and how far it can advance before
\* the prescreen step reads it again.
MaxStartTick == 3

MaxClockAdvance == 1

\* Longest earnings calendar.
MaxEvents == 10

\* Largest sentiment score and longest strategies list handed to
\* validateAnalysis.
MaxSentiment == 11

MaxStrategies == 2

\* Longest text handed to parseAnalysisResponse, in pieces.
MaxPieces == 3

\* Program constants.
DefaultRetries == 3
DefaultBaseDelayMs == 400
JitterMs == 100

---------------------------------------------------------------------------
\* FinnhubAPI.makeRequest

NoError == [kind |-> "none", status |-> 0, statusText |-> ""]
NetworkError == [kind |-> "network", status |-> 0, statusText |-> "Network error"]
JsonError == [kind |-> "json", status |-> 0, statusText |-> "Unexpected token"]

\* new Error(`Finnhub API error: ${response.status} ${response.statusText}`)
HttpError(response) ==
    [kind |-> "Finnhub API error", status |-> response.status,
     statusText |-> response.statusText]

\* The responses fetch(url) resolves with, and its rejection.
Responses ==
    { [kind |-> "response", status |-> 200, statusText |-> "OK", jsonOk |-> TRUE],
      [kind |-> "response", status |-> 200, statusText |-> "OK", jsonOk |-> FALSE],
      [kind |-> "response", status |-> 401, statusText |-> "Unauthorized", jsonOk |-> TRUE],
      [kind |-> "response", status |-> 429, statusText |-> "Too Many Requests", jsonOk |-> TRUE],
      [kind |-> "response", status |-> 503, statusText |-> "Service Unavailable", jsonOk |-> TRUE] }

NetworkFailure == [kind |-> "network", status |-> 0, statusText |-> "", jsonOk |-> FALSE]

\* response.ok
Ok(response) == response.status >= 200 /\ response.status <= 299

\* status === 429 || (status >= 500 && status < 600)
RetryableStatus(status) == status = 429 \/ (status >= 500 /\ status < 600)

RECURSIVE Pow2(_)
Pow2(n) == IF n <= 0 THEN 1 ELSE 2 * Pow2(n - 1)

\* Faulty variant of BackoffDelay: the delay does not grow with the attempt.
BackoffDelayConstant(base, k, jitter) == base + jitter

\* Math.round(baseDelayMs * Math.pow(2, attempt) + Math.random() * 100), the
\* random term already rounded: jitter is a whole number in 0..100.
BackoffDelay(base, k, jitter) == base * Pow2(k) + jitter

Jitters == {0, JitterMs}

\* Faulty variant of MRCatch: the loop bound off by one (attempt <= retries).
MRCatchOneMore(err) ==
    /\ lastError' = err
    /\ IF attempt <= retries
         THEN /\ mrPc' = "backoff"
              /\ mrResult' = mrResult
         ELSE /\ mrPc' = "rejected"
              /\ mrResult' = [kind |-> "error", error |-> err]

\* Faulty variant of MRCatch: lastError keeps the first error instead of the last.
MRCatchKeepsFirst(err) ==
    LET kept == IF lastError = NoError THEN err ELSE lastError IN
    /\ lastError' = kept
    /\ IF attempt < retries
         THEN /\ mrPc' = "backoff"
              /\ mrResult' = mrResult
         ELSE /\ mrPc' = "rejected"
              /\ mrResult' = [kind |-> "error", error |-> kept]

\* The catch block: lastError = err, then retry if attempts remain; on the
\* last attempt the loop ends and lastError is thrown.
MRCatch(err) ==
    /\ lastError' = err
    /\ IF attempt < retries
         THEN /\ mrPc' = "backoff"
              /\ mrResult' = mrResult
         ELSE /\ mrPc' = "rejected"
              /\ mrResult' = [kind |-> "error", error |-> err]

\* makeRequest(endpoint, { retries, baseDelayMs }) is entered.
MRCall ==
    /\ MRFrame
    /\ mrPc = "idle"
    /\ mrPc' = "fetch"
    /\ UNCHANGED <<retries, baseDelayMs, delay, attempt, lastError, mrLog, delays,
                   mrPaced, mrResult>>

\* await fetch(url) rejects.
MRFetchRejects ==
    /\ MRFrame
    /\ mrPc = "fetch"
    /\ mrLog' = Append(mrLog, NetworkFailure)
    /\ MRCatch(NetworkError)
    /\ UNCHANGED <<retries, baseDelayMs, delay, attempt, delays, mrPaced>>

\* await fetch(url) resolves with a response that is not ok.
MRFetchNotOk ==
    /\ MRFrame
    /\ mrPc = "fetch"
    /\ \E response \in Responses :
        /\ ~Ok(response)
        /\ mrLog' = Append(mrLog, response)
        /\ IF RetryableStatus(response.status) /\ attempt < retries
             THEN /\ mrPc' = "backoff"
                  /\ UNCHANGED <<lastError, mrResult>>
             ELSE MRCatch(HttpError(response))
    /\ UNCHANGED <<retries, baseDelayMs, delay, attempt, delays, mrPaced>>

\* await fetch(url) resolves with an ok response; response.json() is awaited.
MRFetchOk ==
    /\ MRFrame
    /\ mrPc = "fetch"
    /\ \E response \in Responses :
        /\ Ok(response)
        /\ mrLog' = Append(mrLog, response)
        /\ mrPaced' = (mrPaced \/ delay > 0)
        /\ IF response.jsonOk
             THEN /\ mrPc' = "returned"
                  /\ mrResult' = [kind |-> "body", error |-> NoError]
                  /\ UNCHANGED lastError
             ELSE MRCatch(JsonError)
    /\ UNCHANGED <<retries, baseDelayMs, delay, attempt, delays>>

\* The backoff timer fires; continue runs attempt++.
MRBackoff ==
    /\ MRFrame
    /\ mrPc = "backoff"
    /\ \E jitter \in Jitters :
        delays' = Append(delays, BackoffDelay(baseDelayMs, attempt, jitter))
    /\ attempt' = attempt + 1
    /\ mrPc' = "fetch"
    /\ UNCHANGED <<retries, baseDelayMs, delay, lastError, mrLog, mrPaced, mrResult>>

InitMR ==
    /\ mrPc = "idle"
    /\ retries \in 0..MaxRetries
    /\ baseDelayMs = DefaultBaseDelayMs
    /\ delay \in {0, 100}
    /\ attempt = 0
    /\ lastError = NoError
    /\ mrLog = <<>>
    /\ delays = <<>>
    /\ mrPaced = FALSE
    /\ mrResult = [kind |-> "pending", error |-> NoError]

NextMR ==
    \/ MRCall
    \/ MRFetchRejects
    \/ MRFetchNotOk
    \/ MRFetchOk
    \/ MRBackoff

---------------------------------------------------------------------------
\* getMarketContext

VixHigh == 30
VixElevated == 20
VixLow == 15

NoResponse == [kind |-> "none", status |-> 0, statusText |-> "", jsonOk |-> FALSE]

\* What vixResponse.json() can resolve with: null, an object without c, or
\* an object whose c is a number.
NoBody == [kind |-> "none", c |-> 0]
NullBody == [kind |-> "null", c |-> 0]
BodyWithoutC == [kind |-> "object", c |-> -1]
QuoteBodies == {NullBody, BodyWithoutC} \cup { [kind |-> "quote", c |-> v] : v \in 0..MaxVix }

\* A vix field: null, undefined (vixData.c of an object without c) or a number.
NullVix == [kind |-> "null", value |-> 0]
UndefinedVix == [kind |-> "undefined", value |-> 0]
NumberVix(v) == [kind |-> "number", value |-> v]

NoContext == [vix |-> NullVix, marketRegime |-> "none"]

\* return { vix: null, marketRegime: 'unknown' }
UnknownContext == [vix |-> NullVix, marketRegime |-> "unknown"]

\* Faulty variant of MarketRegime: the thresholds are inclusive.
MarketRegimeInclusive(body) ==
    IF body.kind # "quote" THEN "normal"
    ELSE IF body.c >= VixHigh THEN "high-volatility"
    ELSE IF body.c >= VixElevated THEN "elevated-volatility"
    ELSE IF body.c <= VixLow THEN "low-volatility"
    ELSE "normal"

\* The if / else-if chain over vixLevel; every comparison with undefined is
\* false, which leaves 'normal'.
MarketRegime(body) ==
    IF body.kind # "quote" THEN "normal"
    ELSE IF body.c > VixHigh THEN "high-volatility"
    ELSE IF body.c > VixElevated THEN "elevated-volatility"
    ELSE IF body.c < VixLow THEN "low-volatility"
    ELSE "normal"

\* Faulty variant of CtxCatch: the error is rethrown.
CtxCatchRethrows ==
    /\ ctxPc' = "rejected"
    /\ ctxResult' = ctxResult

\* The catch block of getMarketContext: log and return the unknown context.
CtxCatch ==
    /\ ctxPc' = "returned"
    /\ ctxResult' = UnknownContext

\* getMarketContext(finnhubApiKey) is entered and issues fetch(vixUrl).
CtxCall ==
    /\ CtxFrame
    /\ ctxPc = "idle"
    /\ ctxPc' = "fetching"
    /\ ctxFetches' = ctxFetches + 1
    /\ UNCHANGED <<ctxResponse, ctxBody, ctxResult>>

\* await fetch(vixUrl) rejects.
CtxFetchRejects ==
    /\ CtxFrame
    /\ ctxPc = "fetching"
    /\ ctxResponse' = NetworkFailure
    /\ CtxCatch
    /\ UNCHANGED <<ctxFetches, ctxBody>>

\* await fetch(vixUrl) resolves; a response that is not ok returns at once.
CtxFetchResolves ==
    /\ CtxFrame
    /\ ctxPc = "fetching"
    /\ \E response \in Responses :
        /\ ctxResponse' = response
        /\ IF ~Ok(response)
             THEN /\ ctxPc' = "returned"
                  /\ ctxResult' = UnknownContext
             ELSE /\ ctxPc' = "responded"
                  /\ UNCHANGED ctxResult
    /\ UNCHANGED <<ctxFetches, ctxBody>>

\* await vixResponse.json() rejects.
CtxJsonRejects ==
    /\ CtxFrame
    /\ ctxPc = "responded"
    /\ ~ctxResponse.jsonOk
    /\ CtxCatch
    /\ UNCHANGED <<ctxFetches, ctxResponse, ctxBody>>

\* await vixResponse.json() resolves; vixData.c of null throws a TypeError.
CtxJsonResolves ==
    /\ CtxFrame
    /\ ctxPc = "responded"
    /\ ctxResponse.jsonOk
    /\ \E body \in QuoteBodies :
        /\ ctxBody' = body
        /\ IF body.kind = "null"
             THEN CtxCatch
             ELSE /\ ctxPc' = "returned"
                  /\ ctxResult' =
                        [vix |-> IF body.kind = "quote" THEN NumberVix(body.c)
                                 ELSE UndefinedVix,
                         marketRegime |-> MarketRegime(body)]
    /\ UNCHANGED <<ctxFetches, ctxResponse>>

InitCtx ==
    /\ ctxPc = "idle"
    /\ ctxFetches = 0
    /\ ctxResponse = NoResponse
    /\ ctxBody = NoBody
    /\ ctxResult = NoContext

NextCtx ==
    \/ CtxCall
    \/ CtxFetchRejects
    \/ CtxFetchResolves
    \/ CtxJsonRejects
    \/ CtxJsonResolves

---------------------------------------------------------------------------
\* generateTradingIdeas, generateBatchAnalysis, generateSingleAnalysis,
\* parseBatchResponse

\* Symbols of the opportunities handed in.
Symbols == {"AAPL", "MSFT", "BRK.B"}

\* What the reply can carry between "===" and "===".
DelimTexts == {"AAPL", "aapl", "MSFT", "BRK.B", "BRKXB"}

\* The 'i' flag of the regular expressions: letters compare by upper case.
ToUpperCase(text) == IF text = "aapl" THEN "AAPL" ELSE text

\* new RegExp(`===\\s*${opp.symbol}\\s*===...`, 'i') against one delimiter:
\* the symbol is spliced in unescaped, so it is a pattern, and the '.' of
\* BRK.B stands for any character.
SymbolRegexMatches(symbol, text) ==
    \/ ToUpperCase(text) = ToUpperCase(symbol)
    \/ symbol = "BRK.B" /\ ToUpperCase(text) = "BRKXB"

\* The lookahead (?===\s*[A-Z]+\s*===|$): a delimiter ends a slice only if
\* its text is letters alone.
LookaheadMatches(text) == text # "BRK.B"

\* rawBatchResponse.match(symbolRegex): the first delimiter that matches, 0
\* if there is none.
SymbolMatch(reply, symbol) ==
    LET hits == { k \in 1..Len(reply) : SymbolRegexMatches(symbol, reply[k]) } IN
    IF hits = {} THEN 0 ELSE CHOOSE k \in hits : \A j \in hits : k <= j

\* symbolMatch[1]: the sections from the matched delimiter up to the next
\* delimiter the lookahead accepts, or to the end of the reply. The lookahead
\* matches from the second '=' of that delimiter, so its first '=' is captured
\* (stray); trim() leaves it in place.
SymbolResponse(reply, k) ==
    LET stops == { m \in (k + 1)..Len(reply) : LookaheadMatches(reply[m]) } IN
    IF stops = {}
      THEN [source |-> "batch", from |-> k, to |-> Len(reply), stray |-> FALSE]
      ELSE [source |-> "batch", from |-> k,
            to |-> (CHOOSE m \in stops : \A j \in stops : m <= j) - 1,
            stray |-> TRUE]

\* The text of the reply to the single call for opportunities[i].
SingleResponse(i) == [source |-> "single", from |-> i, to |-> i, stray |-> FALSE]

\* parseAnalysisResponse(rawResponse, opportunity): the symbol and rawAnalysis
\* of the analysis it returns; the extracted fields are ParseAnalysisFields.
ParseAnalysisResponse(rawResponse, opportunity) ==
    [symbol |-> opportunity.symbol, rawAnalysis |-> rawResponse]

RECURSIVE ParseBatchFrom(_, _, _)
ParseBatchFrom(reply, opps, i) ==
    IF i > Len(opps) THEN <<>>
    ELSE LET k == SymbolMatch(reply, opps[i].symbol) IN
         (IF k # 0
            THEN << [opportunity |-> i,
                     analysis |-> ParseAnalysisResponse(SymbolResponse(reply, k), opps[i])] >>
            ELSE <<>>)
         \o ParseBatchFrom(reply, opps, i + 1)

\* Faulty variant of ParseBatchResponse: the analyses come out last first.
ParseBatchResponseReversed(reply, opps) ==
    LET analyses == ParseBatchFrom(reply, opps, 1)
    IN [e \in 1..Len(analyses) |-> analyses[Len(analyses) + 1 - e]]

\* parseBatchResponse(rawBatchResponse, opportunities). An entry's opportunity
\* is the input object itself: its position in opportunities.
ParseBatchResponse(reply, opps) == ParseBatchFrom(reply, opps, 1)

Replies == UNION { [1..n -> DelimTexts] : n \in 0..MaxSections }

\* generateTradingIdeas is entered. generateBatchAnalysis builds the prompt,
\* where opportunities[0].symbol throws a TypeError on an empty list before
\* any call is made; the catch block then runs the fallback loop over nothing.
GenCall ==
    /\ GenFrame
    /\ genPc = "idle"
    /\ IF Len(opportunities) = 0
         THEN /\ genMode' = "fallback"
              /\ content' = <<>>
              /\ genPc' = "returned"
              /\ UNCHANGED <<genCalls, genInFlight>>
         ELSE /\ genCalls' = Append(genCalls, [kind |-> "batch", index |-> 0, outcome |-> "pending"])
              /\ genInFlight' = genInFlight + 1
              /\ genPc' = "batchCall"
              /\ UNCHANGED <<genMode, content>>
    /\ UNCHANGED <<opportunities, genIndex, genReply>>

\* The batch call (or reading its response) throws: rethrown by
\* generateBatchAnalysis and caught by generateTradingIdeas.
GenBatchThrows ==
    /\ GenFrame
    /\ genPc = "batchCall"
    /\ genCalls' = [genCalls EXCEPT ![Len(genCalls)].outcome = "threw"]
    /\ genInFlight' = genInFlight - 1
    /\ genMode' = "fallback"
    /\ content' = <<>>
    /\ genIndex' = 1
    /\ genPc' = "fallback"
    /\ UNCHANGED <<opportunities, genReply>>

\* The batch call replies; parseBatchResponse splits the reply.
GenBatchReplies ==
    /\ GenFrame
    /\ genPc = "batchCall"
    /\ \E reply \in Replies :
        /\ genReply' = reply
        /\ content' = ParseBatchResponse(reply, opportunities)
    /\ genCalls' = [genCalls EXCEPT ![Len(genCalls)].outcome = "replied"]
    /\ genInFlight' = genInFlight - 1
    /\ genPc' = "returned"
    /\ UNCHANGED <<opportunities, genMode, genIndex>>

\* The fallback loop reaches opportunities[genIndex] and generateSingleAnalysis
\* issues its call.
GenSingleIssue ==
    /\ GenFrame
    /\ genPc = "fallback"
    /\ genIndex <= Len(opportunities)
    /\ genCalls' = Append(genCalls, [kind |-> "single", index |-> genIndex, outcome |-> "pending"])
    /\ genInFlight' = genInFlight + 1
    /\ genPc' = "singleCall"
    /\ UNCHANGED <<opportunities, genMode, genIndex, genReply, content>>

\* The fallback loop has no opportunity left: return content.
GenFallbackDone ==
    /\ GenFrame
    /\ genPc = "fallback"
    /\ genIndex > Len(opportunities)
    /\ genPc' = "returned"
    /\ UNCHANGED <<opportunities, genMode, genCalls, genInFlight, genIndex, genReply, content>>

\* A single call throws: generateSingleAnalysis returns null, nothing is pushed.
GenSingleThrows ==
    /\ GenFrame
    /\ genPc = "singleCall"
    /\ genCalls' = [genCalls EXCEPT ![Len(genCalls)].outcome = "threw"]
    /\ genInFlight' = genInFlight - 1
    /\ genIndex' = genIndex + 1
    /\ genPc' = "fallback"
    /\ UNCHANGED <<opportunities, genMode, genReply, content>>

\* A single call replies: its analysis is pushed.
GenSingleReplies ==
    /\ GenFrame
    /\ genPc = "singleCall"
    /\ genCalls' = [genCalls EXCEPT ![Len(genCalls)].outcome = "replied"]
    /\ genInFlight' = genInFlight - 1
    /\ content' = Append(content,
                    [opportunity |-> genIndex,
                     analysis |-> ParseAnalysisResponse(SingleResponse(genIndex),
                                                        opportunities[genIndex])])
    /\ genIndex' = genIndex + 1
    /\ genPc' = "fallback"
    /\ UNCHANGED <<opportunities, genMode, genReply>>

InitGen ==
    /\ genPc = "idle"
    /\ opportunities \in UNION { [1..n -> [symbol : Symbols]] : n \in 0..MaxOpps }
    /\ genMode = "batch"
    /\ genCalls = <<>>
    /\ genInFlight = 0
    /\ genIndex = 0
    /\ genReply = <<>>
    /\ content = <<>>

NextGen ==
    \/ GenCall
    \/ GenBatchThrows
    \/ GenBatchReplies
    \/ GenSingleIssue
    \/ GenFallbackDone
    \/ GenSingleThrows
    \/ GenSingleReplies

---------------------------------------------------------------------------
\* getEarningsOpportunities, calculatePrescreenScore, calculateQualityScore

WindowDays == 45
PrescreenTopK == 8
FinalTopK == 5
QualityThreshold == 5

\* Revenue thresholds of calculatePrescreenScore, in millions of dollars.
RevenueMega == 10000
RevenueLarge == 1000
RevenueMid == 100

\* STOCK_UNIVERSE of config.js.
STOCK_UNIVERSE ==
    {"AAPL", "MSFT", "GOOGL", "AMZN", "NVDA", "META", "TSLA", "JPM", "BRK.B", "UNH"}

SymbolOrder ==
    <<"AAPL", "MSFT", "GOOGL", "AMZN", "NVDA", "META", "TSLA", "JPM", "BRK.B", "UNH", "ZZZZ">>

IndexOf(symbol) == CHOOSE i \in 1..Len(SymbolOrder) : SymbolOrder[i] = symbol

Event(symbol, date, hasRevenue, revenueEstimate, hour) ==
    [symbol |-> symbol, date |-> date, hasRevenue |-> hasRevenue,
     revenueEstimate |-> revenueEstimate, hour |-> hour]

\* The events an upstream calendar is cut from: dates are day numbers,
\* revenue is in millions, hasRevenue = FALSE is a missing revenueEstimate.
EventPool ==
    << Event("AAPL", 1, TRUE, 50000, "amc"),
       Event("MSFT", 14, TRUE, 5000, "bmo"),
       Event("GOOGL", 45, TRUE, 500, ""),
       Event("AMZN", 7, TRUE, 0, "amc"),
       Event("NVDA", 21, FALSE, 0, "bmo"),
       Event("META", 30, TRUE, 50, ""),
       Event("TSLA", 3, TRUE, 50000, ""),
       Event("JPM", 46, TRUE, 5000, "amc"),
       Event("ZZZZ", 10, TRUE, 50000, "amc"),
       Event("BRK.B", 0, TRUE, 50000, "amc"),
       Event("UNH", 28, TRUE, 500, "bmo"),
       Event("AAPL", 35, TRUE, 50, "bmo") >>

\* The calendar of n events that starts at pool position r.
CalendarAt(r, n) ==
    [j \in 1..n |-> EventPool[((r + j - 2) % Len(EventPool)) + 1]]

Calendars ==
    { CalendarAt(r, n) : r \in 1..Len(EventPool), n \in 0..MaxEvents }

\* Faulty variant of Ceil: Math.floor in place of Math.ceil.
CeilAsFloor(a, b) == a \div b

\* Math.ceil(a / b) for b > 0.
Ceil(a, b) == -((-a) \div b)

\* Math.ceil((new Date(event.date) - now) / (1000 * 60 * 60 * 24))
DaysToEarnings(event, now) == Ceil(event.date * TicksPerDay - now, TicksPerDay)

\* daysToEarnings >= 1 && daysToEarnings <= 45
InTimeWindow(event, now) ==
    DaysToEarnings(event, now) >= 1 /\ DaysToEarnings(event, now) <= WindowDays

\* Array.prototype.filter
RECURSIVE SelectSeqBy(_, _)
SelectSeqBy(seq, keep) ==
    IF seq = <<>> THEN <<>>
    ELSE (IF Head(seq) \in keep THEN <<Head(seq)>> ELSE <<>>)
         \o SelectSeqBy(Tail(seq), keep)

Range(seq) == { seq[i] : i \in 1..Len(seq) }

\* Array.prototype.slice(0, k)
Slice(seq, k) == IF Len(seq) <= k THEN seq ELSE SubSeq(seq, 1, k)

\* Array.prototype.sort((a, b) => b[field] - a[field]): stable, descending.
RECURSIVE InsertDesc(_, _, _)
InsertDesc(sorted, x, field) ==
    IF sorted = <<>> THEN <<x>>
    ELSE IF Head(sorted)[field] >= x[field]
           THEN <<Head(sorted)>> \o InsertDesc(Tail(sorted), x, field)
           ELSE <<x>> \o sorted

RECURSIVE SortDescFrom(_, _, _, _)
SortDescFrom(seq, i, acc, field) ==
    IF i > Len(seq) THEN acc
    ELSE SortDescFrom(seq, i + 1, InsertDesc(acc, seq[i], field), field)

SortDesc(seq, field) == SortDescFrom(seq, 1, <<>>, field)

\* calculatePrescreenScore(event, daysToEarnings)
CalculatePrescreenScore(event, daysToEarnings) ==
    (IF event.hasRevenue /\ event.revenueEstimate # 0
       THEN (IF event.revenueEstimate > RevenueMega THEN 10
             ELSE IF event.revenueEstimate > RevenueLarge THEN 7
             ELSE IF event.revenueEstimate > RevenueMid THEN 5
             ELSE 3)
       ELSE 5)
    + (IF daysToEarnings >= 7 /\ daysToEarnings <= 21 THEN 8
       ELSE IF daysToEarnings >= 3 /\ daysToEarnings <= 30 THEN 5
       ELSE 2)
    + (IF event.hour = "amc" THEN 2
       ELSE IF event.hour = "bmo" THEN 1
       ELSE 0)

\* The map callback of the prescreen step: { ...event, daysToEarnings, prescreenScore }
PrescreenEvent(event, now) ==
    [symbol |-> event.symbol, date |-> event.date, hasRevenue |-> event.hasRevenue,
     revenueEstimate |-> event.revenueEstimate, hour |-> event.hour,
     daysToEarnings |-> DaysToEarnings(event, now),
     prescreenScore |-> CalculatePrescreenScore(event, DaysToEarnings(event, now))]

\* The volatility record of one symbol. kind = "null" is a null (or missing)
\* record; hasRsi = FALSE is a missing technicalIndicators.rsi; a field that
\* is 0 stands for 0 and for undefined, which the code treats alike.
Volatility(historicalVolatility, volatilityScore, optionsVolume, hasRsi, rsi, derivedScore) ==
    [kind |-> "data", historicalVolatility |-> historicalVolatility,
     volatilityScore |-> volatilityScore, optionsVolume |-> optionsVolume,
     hasRsi |-> hasRsi, rsi |-> rsi, derivedScore |-> derivedScore]

NullVolatility ==
    [kind |-> "null", historicalVolatility |-> 0, volatilityScore |-> 0,
     optionsVolume |-> 0, hasRsi |-> FALSE, rsi |-> 0, derivedScore |-> 0]

AbsentVolatility ==
    [kind |-> "absent", historicalVolatility |-> 0, volatilityScore |-> 0,
     optionsVolume |-> 0, hasRsi |-> FALSE, rsi |-> 0, derivedScore |-> 0]

\* What getBulkVolatilityAnalysis can hold for a symbol.
VolatilityPool ==
    << Volatility(30, 80, 20000, TRUE, 75, 80),
       NullVolatility,
       Volatility(0, 0, 0, FALSE, 0, 55),
       Volatility(20, 40, 3000, TRUE, 50, 40),
       AbsentVolatility,
       Volatility(10, 60, 7000, TRUE, 0, 60),
       Volatility(15, 20, 500, TRUE, 35, 0) >>

\* The result object of one bulk call: an entry (a record or null) for every
\* requested symbol but the absent ones.
BulkObject(symbols, p) ==
    LET entryOf(symbol) ==
            VolatilityPool[((IndexOf(symbol) + p) % Len(VolatilityPool)) + 1]
        present == { symbol \in Range(symbols) : entryOf(symbol).kind # "absent" }
    IN [kind |-> "object", entries |-> [symbol \in present |-> entryOf(symbol)]]

NullBulk == [kind |-> "null", entries |-> <<>>]

\* What getBulkVolatilityAnalysis(symbols, null, finnhubApiKey) resolves with.
BulkResults(symbols) ==
    {NullBulk} \cup { BulkObject(symbols, p) : p \in 0..(Len(VolatilityPool) - 1) }

\* volatilityMap.get(event.symbol) || null, the map built from
\* Object.entries(bulk || {}) without the null entries.
VolatilityOf(result, symbol) ==
    IF /\ result.kind = "object"
       /\ symbol \in DOMAIN result.entries
       /\ result.entries[symbol].kind = "data"
      THEN result.entries[symbol]
      ELSE NullVolatility

\* calculateVolatilityScore of real-volatility.js: a number derived from the
\* record, 0 for null.
CalculateVolatilityScore(volatility) ==
    IF volatility.kind = "data" THEN volatility.derivedScore ELSE 0

\* Math.round of a value given as twice itself (the weights give halves).
RoundHalves(twice) == (twice + 1) \div 2

\* The local score of calculateQualityScore(opportunity) when it reaches its
\* return statement, kept as twice its value.
QualitySum(opportunity) ==
    LET vol == opportunity.volatilityData
        hasData == vol.kind = "data"
        volatilityScore ==
            IF hasData /\ vol.volatilityScore # 0 THEN vol.volatilityScore
            ELSE opportunity.volatilityScore
        daysToEarnings == opportunity.daysToEarnings
        optionsVolume == IF hasData THEN vol.optionsVolume ELSE 0
        rsiTruthy == hasData /\ vol.hasRsi /\ vol.rsi # 0
        rsi == vol.rsi
    IN   20
         + (IF hasData THEN 20 ELSE 0)
         + (IF hasData /\ vol.historicalVolatility > 0 THEN 10 ELSE 0)
         + (IF volatilityScore > 70 THEN 60
            ELSE IF volatilityScore > 50 THEN 48
            ELSE IF volatilityScore > 30 THEN 36
            ELSE IF volatilityScore > 10 THEN 24
            ELSE 12)
         + (IF daysToEarnings >= 14 /\ daysToEarnings <= 21 THEN 50
            ELSE IF daysToEarnings >= 10 /\ daysToEarnings <= 28 THEN 35
            ELSE IF daysToEarnings >= 5 /\ daysToEarnings <= 35 THEN 20
            ELSE 10)
         + (IF optionsVolume > 10000 THEN 40
            ELSE IF optionsVolume > 5000 THEN 28
            ELSE IF optionsVolume > 1000 THEN 16
            ELSE IF optionsVolume > 0 THEN 8
            ELSE 0)
         + (IF rsiTruthy
              THEN (IF rsi > 70 \/ rsi < 30 THEN 30
                    ELSE IF rsi > 60 \/ rsi < 40 THEN 15
                    ELSE 6)
              ELSE 0)

\* Faulty variant of CalculateQualityScore: the volatility data is not looked at.
CalculateQualityScoreIgnoresData(opportunity) ==
    RoundHalves(QualitySum([opportunity EXCEPT !.volatilityData = NullVolatility]))

\* calculateQualityScore(opportunity): Math.round(score).
CalculateQualityScore(opportunity) == RoundHalves(QualitySum(opportunity))

\* The map callback of the enrichment step.
Enhance(event, result) ==
    LET volatility == VolatilityOf(result, event.symbol)
        enhanced ==
            [symbol |-> event.symbol, date |-> event.date,
             hasRevenue |-> event.hasRevenue, revenueEstimate |-> event.revenueEstimate,
             hour |-> event.hour, daysToEarnings |-> event.daysToEarnings,
             prescreenScore |-> event.prescreenScore,
             volatilityData |-> volatility,
             volatilityScore |-> CalculateVolatilityScore(volatility),
             qualityScore |-> 0]
    IN [enhanced EXCEPT !.qualityScore = CalculateQualityScore(enhanced)]

\* .filter(opp => opp.volatilityData).filter(opp => opp.qualityScore > 5)
Qualifies(opp) ==
    opp.volatilityData.kind = "data" /\ opp.qualityScore > QualityThreshold

\* Faulty variant of SortByQualityScore: the sort is left out.
SortByQualityScoreSkipped(seq) == seq

\* .sort((a, b) => b.qualityScore - a.qualityScore)
SortByQualityScore(seq) == SortDesc(seq, "qualityScore")

\* Faulty variant of SortByPrescreenScore: the events keep their calendar order.
SortByPrescreenScoreSkipped(seq) == seq

\* .sort((a, b) => b.prescreenScore - a.prescreenScore)
SortByPrescreenScore(seq) == SortDesc(seq, "prescreenScore")

\* timeWindowFiltered.map(...): event j reads the clock as readings[j].
PrescreenMap(events, readings) ==
    [j \in 1..Len(events) |-> PrescreenEvent(events[j], readings[j])]

\* The prescreen step over timeWindowFiltered: map, sort, slice(0, 8).
Prescreen(events, readings) ==
    Slice(SortByPrescreenScore(PrescreenMap(events, readings)), PrescreenTopK)

\* Everything after the bulk call resolves.
QualifiedOpportunities(events, result) ==
    LET enhancedOpportunities == [j \in 1..Len(events) |-> Enhance(events[j], result)]
        kept == { opp \in Range(enhancedOpportunities) : Qualifies(opp) }
    IN Slice(SortByQualityScore(SelectSeqBy(enhancedOpportunities, kept)), FinalTopK)

NoPipeError == [stage |-> "none", message |-> ""]

\* getEarningsOpportunities(finnhubApiKey) is entered: fromDate = new Date(),
\* then fetch(url) is issued once.
PipeCall ==
    /\ PipeFrame
    /\ pipePc = "idle"
    /\ fromDate' = clock
    /\ calFetches' = calFetches + 1
    /\ pipePc' = "calendarFetch"
    /\ UNCHANGED <<clock, calResponse, earningsCalendar, universeFiltered,
                   timeWindowFiltered, scored, prescreened, bulkCalls, bulk, pipeResult,
                   pipeError>>

\* await fetch(url) rejects: nothing catches it.
PipeFetchRejects ==
    /\ PipeFrame
    /\ pipePc = "calendarFetch"
    /\ calResponse' = NetworkFailure
    /\ pipePc' = "rejected"
    /\ pipeError' = [stage |-> "calendar", message |-> "Network error"]
    /\ UNCHANGED <<clock, fromDate, calFetches, earningsCalendar, universeFiltered,
                   timeWindowFiltered, scored, prescreened, bulkCalls, bulk, pipeResult>>

\* await fetch(url) resolves: a response that is not ok throws
\* `Finnhub API Error: ${response.statusText}`.
PipeFetchResolves ==
    /\ PipeFrame
    /\ pipePc = "calendarFetch"
    /\ \E response \in Responses :
        /\ calResponse' = response
        /\ IF ~Ok(response)
             THEN /\ pipePc' = "rejected"
                  /\ pipeError' = [stage |-> "calendar", message |-> response.statusText]
             ELSE /\ pipePc' = "calendarJson"
                  /\ UNCHANGED pipeError
    /\ UNCHANGED <<clock, fromDate, calFetches, earningsCalendar, universeFiltered,
                   timeWindowFiltered, scored, prescreened, bulkCalls, bulk, pipeResult>>

\* await response.json() rejects.
PipeJsonRejects ==
    /\ PipeFrame
    /\ pipePc = "calendarJson"
    /\ ~calResponse.jsonOk
    /\ pipePc' = "rejected"
    /\ pipeError' = [stage |-> "calendar", message |-> "Unexpected token"]
    /\ UNCHANGED <<clock, fromDate, calFetches, calResponse, earningsCalendar,
                   universeFiltered, timeWindowFiltered, scored, prescreened, bulkCalls,
                   bulk, pipeResult>>

\* await response.json() resolves. The universe and time-window filters run;
\* with nothing left the run returns []; otherwise the prescreen step reads
\* the clock again for every event and the one bulk call is issued.
PipeJsonResolves ==
    /\ PipeFrame
    /\ pipePc = "calendarJson"
    /\ calResponse.jsonOk
    /\ \E calendar \in Calendars :
        LET inUniverse == SelectSeqBy(calendar, { e \in Range(calendar) : e.symbol \in STOCK_UNIVERSE })
            inWindow == SelectSeqBy(inUniverse, { e \in Range(inUniverse) : InTimeWindow(e, fromDate) })
        IN
        /\ earningsCalendar' = calendar
        /\ universeFiltered' = inUniverse
        /\ timeWindowFiltered' = inWindow
        /\ IF Len(inWindow) = 0
             THEN /\ pipePc' = "returned"
                  /\ pipeResult' = <<>>
                  /\ UNCHANGED <<clock, scored, prescreened, bulkCalls>>
             ELSE \E first \in 0..MaxClockAdvance, last \in 0..MaxClockAdvance,
                     split \in 0..Len(inWindow) :
                    /\ first <= last
                    /\ first = last => split = 0
                    /\ LET readings == [j \in 1..Len(inWindow) |->
                                          fromDate + (IF j <= split THEN first ELSE last)]
                           top == Prescreen(inWindow, readings)
                       IN /\ clock' = fromDate + last
                          /\ scored' = PrescreenMap(inWindow, readings)
                          /\ prescreened' = top
                          /\ bulkCalls' = Append(bulkCalls, [j \in 1..Len(top) |-> top[j].symbol])
                    /\ pipePc' = "bulkCall"
                    /\ UNCHANGED pipeResult
    /\ UNCHANGED <<fromDate, calFetches, calResponse, bulk, pipeError>>

\* await getBulkVolatilityAnalysis(...) rejects: nothing catches it.
PipeBulkRejects ==
    /\ PipeFrame
    /\ pipePc = "bulkCall"
    /\ pipePc' = "rejected"
    /\ pipeError' = [stage |-> "volatility", message |-> "getBulkVolatilityAnalysis failed"]
    /\ UNCHANGED <<clock, fromDate, calFetches, calResponse, earningsCalendar,
                   universeFiltered, timeWindowFiltered, scored, prescreened, bulkCalls,
                   bulk, pipeResult>>

\* await getBulkVolatilityAnalysis(...) resolves: enrich, score, filter, rank.
PipeBulkResolves ==
    /\ PipeFrame
    /\ pipePc = "bulkCall"
    /\ \E result \in BulkResults(bulkCalls[Len(bulkCalls)]) :
        /\ bulk' = result
        /\ pipeResult' = QualifiedOpportunities(prescreened, result)
    /\ pipePc' = "returned"
    /\ UNCHANGED <<clock, fromDate, calFetches, calResponse, earningsCalendar,
                   universeFiltered, timeWindowFiltered, scored, prescreened, bulkCalls,
                   pipeError>>

InitPipe ==
    /\ pipePc = "idle"
    /\ clock \in 0..MaxStartTick
    /\ fromDate = 0
    /\ calFetches = 0
    /\ calResponse = NoResponse
    /\ earningsCalendar = <<>>
    /\ universeFiltered = <<>>
    /\ timeWindowFiltered = <<>>
    /\ scored = <<>>
    /\ prescreened = <<>>
    /\ bulkCalls = <<>>
    /\ bulk = NullBulk
    /\ pipeResult = <<>>
    /\ pipeError = NoPipeError

NextPipe ==
    \/ PipeCall
    \/ PipeFetchRejects
    \/ PipeFetchResolves
    \/ PipeJsonRejects
    \/ PipeJsonResolves
    \/ PipeBulkRejects
    \/ PipeBulkResolves

---------------------------------------------------------------------------
\* validateAnalysis

\* analysis.sentimentScore: null, undefined or a number.
NullSentiment == [kind |-> "null", value |-> 0]
UndefinedSentiment == [kind |-> "undefined", value |-> 0]
NumberSentiment(n) == [kind |-> "number", value |-> n]

SentimentScores ==
    {NullSentiment, UndefinedSentiment}
    \cup { NumberSentiment(n) : n \in (0 - 1)..MaxSentiment }

\* ['STRONGLY CONSIDER', 'NEUTRAL', 'STAY AWAY']
CanonicalRecommendations == {"STRONGLY CONSIDER", "NEUTRAL", "STAY AWAY"}

Recommendations == CanonicalRecommendations \cup {"BUY", "strongly consider"}

\* analysis.strategies: undefined or an array of strategy names.
UndefinedStrategies == [kind |-> "undefined", items |-> <<>>]
StrategyArray(items) == [kind |-> "array", items |-> items]

StrategyNames == <<"Bull Call Spread", "Short Put", "Iron Condor">>

StrategyLists ==
    {UndefinedStrategies}
    \cup { StrategyArray([j \in 1..n |-> StrategyNames[((j - 1) % Len(StrategyNames)) + 1]]) :
             n \in 0..MaxStrategies }

Analyses ==
    [sentimentScore : SentimentScores, recommendation : Recommendations,
     strategies : StrategyLists]

\* The truthiness of a sentimentScore: null, undefined and 0 are falsy.
SentimentTruthy(sentimentScore) ==
    sentimentScore.kind = "number" /\ sentimentScore.value # 0

\* The four if statements of validateAnalysis, each pushing one issue.
SentimentIssue(a) ==
    IF \/ ~SentimentTruthy(a.sentimentScore)
       \/ a.sentimentScore.value < 1
       \/ a.sentimentScore.value > 10
      THEN <<"Invalid sentiment score">> ELSE <<>>

RecommendationIssue(a) ==
    IF a.recommendation \notin CanonicalRecommendations
      THEN <<"Invalid recommendation format">> ELSE <<>>

StrategiesIssue(a) ==
    IF a.strategies.kind = "undefined" \/ Len(a.strategies.items) = 0
      THEN <<"No strategies provided">> ELSE <<>>

ConsistencyIssue(a) ==
    IF /\ SentimentTruthy(a.sentimentScore)
       /\ a.sentimentScore.value < 5
       /\ a.recommendation = "STRONGLY CONSIDER"
      THEN <<"Inconsistent sentiment and recommendation">> ELSE <<>>

\* Faulty variant of ValidateAnalysis: it returns at the first issue found.
ValidateAnalysisShortCircuits(a) ==
    LET all == SentimentIssue(a) \o RecommendationIssue(a)
               \o StrategiesIssue(a) \o ConsistencyIssue(a)
        issues == IF Len(all) > 1 THEN <<Head(all)>> ELSE all
    IN [isValid |-> Len(issues) = 0, issues |-> issues]

\* validateAnalysis(analysis)
ValidateAnalysis(a) ==
    LET issues == SentimentIssue(a) \o RecommendationIssue(a)
                  \o StrategiesIssue(a) \o ConsistencyIssue(a)
    IN [isValid |-> Len(issues) = 0, issues |-> issues]

NoValidation == [isValid |-> FALSE, issues |-> <<"none">>]

\* validateAnalysis(analysis) runs to its return.
ValCall ==
    /\ ValFrame
    /\ valPc = "idle"
    /\ validation' = ValidateAnalysis(analysis)
    /\ valPc' = "returned"
    /\ UNCHANGED analysis

InitVal ==
    /\ valPc = "idle"
    /\ analysis \in Analyses
    /\ validation = NoValidation

NextVal ==
    \/ ValCall

---------------------------------------------------------------------------
\* parseAnalysisResponse: the fields it extracts from a text

\* A text is the concatenation of pieces. Of a piece the patterns see:
\*   word    whether it contains the word "sentiment" (any case)
\*   label   the heading it is: "**SENTIMENT SCORE:** ", "SENTIMENT SCORE: ",
\*           "**RECOMMENDATION:** ", "Recommendation: "
\*   colon   "end": it ends with a colon and white space; "inner": its colon
\*           is followed by "** "; "none": it has no colon
\*   number  the digits it starts with, -1 when it starts with none; no
\*           piece has digits elsewhere, and every piece ends with white space
\*   phrase  the recommendation phrase it is, as written
\*   name    the name of the strategy item it is ("1. **name** - ...\n\n")
Piece(text, word, label, colon, number, phrase, name) ==
    [text |-> text, word |-> word, label |-> label, colon |-> colon,
     number |-> number, phrase |-> phrase, name |-> name]

PiecePool ==
    << Piece("**SENTIMENT SCORE:** ", TRUE, "boldSentiment", "inner", 0 - 1, "", ""),
       Piece("8 ", FALSE, "", "none", 8, "", ""),
       Piece("**RECOMMENDATION:** ", FALSE, "boldRecommendation", "inner", 0 - 1, "", ""),
       Piece("stay away ", FALSE, "", "none", 0 - 1, "stay away", ""),
       Piece("1. **Iron Condor** - POP high\n\n", FALSE, "", "none", 1, "", "Iron Condor"),
       Piece("Sentiment is ", TRUE, "", "none", 0 - 1, "", ""),
       Piece(": ", FALSE, "", "end", 0 - 1, "", ""),
       Piece("0 ", FALSE, "", "none", 0, "", ""),
       Piece("SENTIMENT SCORE: ", TRUE, "plainSentiment", "end", 0 - 1, "", ""),
       Piece("Recommendation: ", FALSE, "plainRecommendation", "end", 0 - 1, "", ""),
       Piece("STRONGLY CONSIDER ", FALSE, "", "none", 0 - 1, "STRONGLY CONSIDER", ""),
       Piece("Neutral ", FALSE, "", "none", 0 - 1, "Neutral", ""),
       Piece("outlook mixed ", FALSE, "", "none", 0 - 1, "", "") >>

Pieces == { PiecePool[i] : i \in 1..Len(PiecePool) }

\* rawResponse: a string, or undefined (on which .match throws a TypeError).
StringText(pieces) == [kind |-> "string", pieces |-> pieces]
UndefinedText == [kind |-> "undefined", pieces |-> <<>>]

Texts ==
    {UndefinedText}
    \cup { StringText(ps) : ps \in UNION { [1..n -> Pieces] : n \in 0..MaxPieces } }

\* The least element of a set of positions, 0 for the empty set: where the
\* leftmost match of a pattern starts.
First(S) == IF S = {} THEN 0 ELSE CHOOSE i \in S : \A j \in S : i <= j

StartsWithNumber(ps, i) == i >= 1 /\ i <= Len(ps) /\ ps[i].number >= 0

\* /\*\*SENTIMENT SCORE:\*\*\s*(\d+)/i and /SENTIMENT SCORE:\s*(\d+)/i: the
\* heading with digits right after it. The result is the piece captured.
HeadingThenNumber(ps, label) ==
    LET i == First({ k \in 1..Len(ps) : ps[k].label = label /\ StartsWithNumber(ps, k + 1) })
    IN IF i = 0 THEN 0 ELSE i + 1

\* /sentiment[^:]*:\s*(\d+)/i: from the word, the first colon must be
\* followed by white space and digits.
FirstColonFrom(ps, i) == First({ k \in i..Len(ps) : ps[k].colon # "none" })

SentimentColonNumber(ps) ==
    LET ok(i) == /\ ps[i].word
                 /\ FirstColonFrom(ps, i) # 0
                 /\ ps[FirstColonFrom(ps, i)].colon = "end"
                 /\ StartsWithNumber(ps, FirstColonFrom(ps, i) + 1)
        i == First({ k \in 1..Len(ps) : ok(k) })
    IN IF i = 0 THEN 0 ELSE FirstColonFrom(ps, i) + 1

\* /sentiment[^0-9]*(\d+)/i: from the word, the first digits.
SentimentThenNumber(ps) ==
    LET i == First({ k \in 1..Len(ps) : ps[k].word /\ \E j \in (k + 1)..Len(ps) : ps[j].number >= 0 })
    IN IF i = 0 THEN 0 ELSE First({ j \in (i + 1)..Len(ps) : ps[j].number >= 0 })

\* The four sentiment patterns in order: the first that matches wins.
SentimentMatch(ps) ==
    IF HeadingThenNumber(ps, "boldSentiment") # 0 THEN HeadingThenNumber(ps, "boldSentiment")
    ELSE IF HeadingThenNumber(ps, "plainSentiment") # 0
           THEN HeadingThenNumber(ps, "plainSentiment")
    ELSE IF SentimentColonNumber(ps) # 0 THEN SentimentColonNumber(ps)
    ELSE SentimentThenNumber(ps)

\* /\*\*RECOMMENDATION:\*\*\s*(...)/i and /RECOMMENDATION:\s*(...)/i: the
\* heading with a phrase right after it; /(STRONGLY CONSIDER|NEUTRAL|STAY AWAY)/i:
\* the first phrase anywhere.
HeadingThenPhrase(ps, label) ==
    LET i == First({ k \in 1..Len(ps) :
                       ps[k].label = label /\ k < Len(ps) /\ ps[k + 1].phrase # "" })
    IN IF i = 0 THEN 0 ELSE i + 1

RecommendationMatch(ps) ==
    IF HeadingThenPhrase(ps, "boldRecommendation") # 0
      THEN HeadingThenPhrase(ps, "boldRecommendation")
    ELSE IF HeadingThenPhrase(ps, "plainRecommendation") # 0
           THEN HeadingThenPhrase(ps, "plainRecommendation")
    ELSE First({ k \in 1..Len(ps) : ps[k].phrase # "" })

\* Faulty variant of PhraseToUpperCase: the capture is kept as written.
PhraseAsWritten(phrase) == phrase

\* String.prototype.toUpperCase on a captured phrase.
PhraseToUpperCase(phrase) ==
    IF phrase = "stay away" THEN "STAY AWAY"
    ELSE IF phrase = "Neutral" THEN "NEUTRAL"
    ELSE phrase

\* The numbered bold items, in order: their names.
RECURSIVE StrategyMatches(_)
StrategyMatches(ps) ==
    IF ps = <<>> THEN <<>>
    ELSE (IF Head(ps).name # "" THEN <<Head(ps).name>> ELSE <<>>)
         \o StrategyMatches(Tail(ps))

\* The defaults the analysis object is created with.
DefaultFields ==
    [sentimentScore |-> NullSentiment, recommendation |-> "NEUTRAL", strategies |-> <<>>]

\* The try block of parseAnalysisResponse; a TypeError thrown by the first
\* .match is caught, which leaves the defaults.
ParseAnalysisFields(text) ==
    IF text.kind # "string" THEN DefaultFields
    ELSE LET ps == text.pieces IN
         [sentimentScore |->
              IF SentimentMatch(ps) # 0 THEN NumberSentiment(ps[SentimentMatch(ps)].number)
              ELSE NullSentiment,
          recommendation |->
              IF RecommendationMatch(ps) # 0
                THEN PhraseToUpperCase(ps[RecommendationMatch(ps)].phrase)
                ELSE "NEUTRAL",
          strategies |-> StrategyMatches(ps)]

NoAnalysis == [symbol |-> "", rawAnalysis |-> UndefinedText, fields |-> DefaultFields]

\* parseAnalysisResponse(rawResponse, opportunity) runs to its return.
ParseCall ==
    /\ ParseFrame
    /\ parsePc = "idle"
    /\ \E symbol \in Symbols :
        LET made == ParseAnalysisResponse(responseText, [symbol |-> symbol])
        IN parsed' = [symbol |-> made.symbol, rawAnalysis |-> made.rawAnalysis,
                      fields |-> ParseAnalysisFields(responseText)]
    /\ parsePc' = "returned"
    /\ UNCHANGED responseText

InitParse ==
    /\ parsePc = "idle"
    /\ responseText \in Texts
    /\ parsed = NoAnalysis

NextParse ==
    \/ ParseCall

---------------------------------------------------------------------------
\* calculatePrescreenScore and calculateQualityScore, called on their own

\* Revenue estimates around the thresholds, in millions of dollars.
RevenueValues ==
    {0, 50, RevenueMid, RevenueMid + 1, RevenueLarge, RevenueLarge + 1,
     RevenueMega, RevenueMega + 1}

Hours == {"amc", "bmo", ""}

PsEvents ==
    { Event("AAPL", 0, TRUE, r, h) : r \in RevenueValues, h \in Hours }
    \cup { Event("AAPL", 0, FALSE, 0, h) : h \in Hours }

\* calculatePrescreenScore(event, daysToEarnings) runs to its return.
PsCall ==
    /\ PsFrame
    /\ psPc = "idle"
    /\ psScore' = CalculatePrescreenScore(psEvent, psDays)
    /\ psPc' = "returned"
    /\ UNCHANGED <<psEvent, psDays>>

InitPs ==
    /\ psPc = "idle"
    /\ psEvent \in PsEvents
    /\ psDays \in 0..(WindowDays + 1)
    /\ psScore = 0

NextPs ==
    \/ PsCall

\* Values around the thresholds of calculateQualityScore.
ScoreValues == {0, 10, 11, 30, 31, 50, 51, 70, 71}

VolumeValues == {0, 500, 3000, 7000, 20000}

RsiValues == {0, 29, 30, 39, 40, 50, 60, 61, 70, 71, 100}

DayValues == {1, 5, 10, 14, 21, 45}

QsVolatilities ==
    {NullVolatility}
    \cup { Volatility(hv, vs, ov, TRUE, rsi, 0) :
             hv \in {0, 30}, vs \in ScoreValues, ov \in VolumeValues, rsi \in RsiValues }
    \cup { Volatility(hv, vs, ov, FALSE, 0, 0) :
             hv \in {0, 30}, vs \in ScoreValues, ov \in VolumeValues }

\* The fields of an opportunity calculateQualityScore reads.
QsOpportunities ==
    [daysToEarnings : DayValues, volatilityScore : ScoreValues,
     volatilityData : QsVolatilities]

\* calculateQualityScore(opportunity) runs to its return: sum is the local
\* score (doubled) it rounds, result the value returned.
QsCall ==
    /\ QsFrame
    /\ qsPc = "idle"
    /\ qsScore' = [sum |-> QualitySum(qsOpportunity),
                   result |-> CalculateQualityScore(qsOpportunity)]
    /\ qsPc' = "returned"
    /\ UNCHANGED qsOpportunity

InitQs ==
    /\ qsPc = "idle"
    /\ qsOpportunity \in QsOpportunities
    /\ qsScore = [sum |-> 0, result |-> 0]

NextQs ==
    \/ QsCall

---------------------------------------------------------------------------
\* Every function at rest: the variables of the functions a specification
\* does not run.
RestMR ==
    /\ mrPc = "rest" /\ retries = 0 /\ baseDelayMs = 0 /\ delay = 0 /\ attempt = 0
    /\ lastError = NoError /\ mrLog = <<>> /\ delays = <<>> /\ mrPaced = FALSE
    /\ mrResult = [kind |-> "pending", error |-> NoError]

RestCtx ==
    /\ ctxPc = "rest" /\ ctxFetches = 0 /\ ctxResponse = NoResponse
    /\ ctxBody = NoBody /\ ctxResult = NoContext

RestGen ==
    /\ genPc = "rest" /\ opportunities = <<>> /\ genMode = "batch" /\ genCalls = <<>>
    /\ genInFlight = 0 /\ genIndex = 0 /\ genReply = <<>> /\ content = <<>>

RestPipe ==
    /\ pipePc = "rest" /\ clock = 0 /\ fromDate = 0 /\ calFetches = 0
    /\ calResponse = NoResponse /\ earningsCalendar = <<>> /\ universeFiltered = <<>>
    /\ timeWindowFiltered = <<>> /\ scored = <<>> /\ prescreened = <<>>
    /\ bulkCalls = <<>>
    /\ bulk = NullBulk /\ pipeResult = <<>> /\ pipeError = NoPipeError

RestVal == valPc = "rest" /\ analysis = <<>> /\ validation = NoValidation

RestParse == parsePc = "rest" /\ responseText = UndefinedText /\ parsed = NoAnalysis

RestPs == psPc = "rest" /\ psEvent = <<>> /\ psDays = 0 /\ psScore = 0

RestQs == qsPc = "rest" /\ qsOpportunity = <<>> /\ qsScore = [sum |-> 0, result |-> 0]

\* The pure functions at rest.
RestPure == RestVal /\ RestParse /\ RestPs /\ RestQs

\* The four calls that do I/O at rest.
RestIO == RestMR /\ RestCtx /\ RestGen /\ RestPipe

\* One call of FinnhubAPI.makeRequest.
InitSpecMR == InitMR /\ RestCtx /\ RestGen /\ RestPipe /\ RestPure

SpecMR == InitSpecMR /\ [][NextMR]_vars

\* Every fetch settles and every timer fires.
FairSpecMR == SpecMR /\ WF_vars(NextMR)

\* One call of getMarketContext.
InitSpecCtx == InitCtx /\ RestMR /\ RestGen /\ RestPipe /\ RestPure

SpecCtx == InitSpecCtx /\ [][NextCtx]_vars

\* One call of generateTradingIdeas.
InitSpecGen == InitGen /\ RestMR /\ RestCtx /\ RestPipe /\ RestPure

SpecGen == InitSpecGen /\ [][NextGen]_vars

\* One run of getEarningsOpportunities.
InitSpecPipe == InitPipe /\ RestMR /\ RestCtx /\ RestGen /\ RestPure

SpecPipe == InitSpecPipe /\ [][NextPipe]_vars

\* One call of validateAnalysis.
InitSpecVal == InitVal /\ RestIO /\ RestParse /\ RestPs /\ RestQs

SpecVal == InitSpecVal /\ [][NextVal]_vars

\* One call of parseAnalysisResponse.
InitSpecParse == InitParse /\ RestIO /\ RestVal /\ RestPs /\ RestQs

SpecParse == InitSpecParse /\ [][NextParse]_vars

\* One call of calculatePrescreenScore.
InitSpecPs == InitPs /\ RestIO /\ RestVal /\ RestParse /\ RestQs

SpecPs == InitSpecPs /\ [][NextPs]_vars

\* One call of calculateQualityScore.
InitSpecQs == InitQs /\ RestIO /\ RestVal /\ RestParse /\ RestPs

SpecQs == InitSpecQs /\ [][NextQs]_vars

\* Any one of the calls.
Init ==
    \/ InitSpecMR
    \/ InitSpecCtx
    \/ InitSpecGen
    \/ InitSpecPipe
    \/ InitSpecVal
    \/ InitSpecParse
    \/ InitSpecPs
    \/ InitSpecQs

Next ==
    \/ NextMR
    \/ NextCtx
    \/ NextGen
    \/ NextPipe
    \/ NextVal
    \/ NextParse
    \/ NextPs
    \/ NextQs

Spec == Init /\ [][Next]_vars

---------------------------------------------------------------------------
\* Claims about FinnhubAPI.makeRequest

MRSettled == mrPc \in {"returned", "rejected"}

\* A response with a status that is neither 2xx nor 429 nor 5xx.
NonRetryable(outcome) ==
    /\ outcome.kind = "response"
    /\ ~Ok(outcome)
    /\ ~RetryableStatus(outcome.status)

LastOutcome == mrLog[Len(mrLog)]

\* C1: a non-retryable status on the first fetch fails the request at once,
\* whatever retries is: exactly one fetch, no backoff delay, and a rejection
\* with the error carrying that status and status text.
C1_NonRetryableFailsImmediately ==
    (Len(mrLog) >= 1 /\ NonRetryable(mrLog[1])) =>
        /\ Len(mrLog) = 1
        /\ delays = <<>>
        /\ mrPc = "rejected"
        /\ mrResult = [kind |-> "error", error |-> HttpError(mrLog[1])]

\* C2: whatever the fetch outcomes, one call issues at most retries + 1
\* fetches (attempts 0..retries), settles (returns a body or rejects), and
\* does nothing more once it has settled.
C2_BoundedAttemptsThenSettles ==
    /\ [](Len(mrLog) <= retries + 1 /\ attempt <= retries)
    /\ [][MRSettled => UNCHANGED mrVars]_vars
    /\ <>MRSettled

\* C2's case: a body returned by the last allowed attempt, after failures.
C2_Witness ==
    /\ mrPc = "returned"
    /\ retries = MaxRetries
    /\ Len(mrLog) = retries + 1

\* C3: a request that has exhausted its retries rejects with the error of
\* its last attempt: the network error after a network failure, the
\* 'Finnhub API error: <status> <statusText>' error after an HTTP failure.
C3_RejectsWithLastError ==
    (mrPc = "rejected" /\ Len(mrLog) = retries + 1) =>
        /\ LastOutcome.kind = "network" =>
              mrResult = [kind |-> "error", error |-> NetworkError]
        /\ (LastOutcome.kind = "response" /\ ~Ok(LastOutcome)) =>
              mrResult = [kind |-> "error", error |-> HttpError(LastOutcome)]

\* C3's case: a network failure first, a 429 on the last attempt.
C3_Witness ==
    /\ mrPc = "rejected"
    /\ retries >= 1
    /\ Len(mrLog) = retries + 1
    /\ mrLog[1].kind = "network"
    /\ LastOutcome.kind = "response" /\ LastOutcome.status = 429
    /\ mrResult.error.kind = "Finnhub API error"

---------------------------------------------------------------------------
\* Claims about getMarketContext

\* C10: getMarketContext never raises: after its single fetch every outcome
\* (network error, non-2xx response, body that cannot be parsed) ends in a
\* returned MarketContext, and a fetch error or non-2xx response gives
\* vix = null with marketRegime = 'unknown'.
C10_MarketContextNeverFails ==
    /\ ctxPc # "rejected"
    /\ ctxPc = "returned" \/ ENABLED NextCtx
    /\ ctxPc \in {"fetching", "responded", "returned"} => ctxFetches = 1
    /\ ctxPc = "returned" =>
          /\ ctxResult.marketRegime \in
                {"low-volatility", "normal", "elevated-volatility",
                 "high-volatility", "unknown"}
          /\ (ctxResponse.kind = "network" \/ ~Ok(ctxResponse)) =>
                ctxResult = UnknownContext

\* C10's case: a 2xx response whose body cannot be parsed.
C10_Witness ==
    /\ ctxPc = "returned"
    /\ ctxResponse.kind = "response" /\ Ok(ctxResponse) /\ ~ctxResponse.jsonOk
    /\ ctxResult = UnknownContext

---------------------------------------------------------------------------
\* Claims about generateTradingIdeas

\* The entries of content that refer to opportunities[i].
EntriesOf(i) == { e \in 1..Len(content) : content[e].opportunity = i }

\* The reply carries the delimiter '=== SYMBOL ===' of opportunities[i], in
\* any letter case.
DelimiterPresent(i) ==
    \E k \in 1..Len(genReply) :
        ToUpperCase(genReply[k]) = ToUpperCase(opportunities[i].symbol)

\* The first section of the reply under the delimiter of opportunities[i].
OwnSection(i) ==
    CHOOSE k \in 1..Len(genReply) :
        /\ ToUpperCase(genReply[k]) = ToUpperCase(opportunities[i].symbol)
        /\ \A j \in 1..(k - 1) :
              ToUpperCase(genReply[j]) # ToUpperCase(opportunities[i].symbol)

\* The single call for opportunities[i] was issued and replied.
SingleReplied(i) ==
    \E j \in 1..Len(genCalls) :
        /\ genCalls[j].kind = "single"
        /\ genCalls[j].index = i
        /\ genCalls[j].outcome = "replied"

\* C8: the first generative call is the one batch call; the fallback is
\* entered only when that call throws, and then issues one call per
\* opportunity, in input order, one at a time; a batch reply that was
\* received never leads to fallback calls. A run makes 1 or N+1 calls.
C8_BatchFirstThenSequentialFallback ==
    /\ genInFlight <= 1
    /\ Len(genCalls) >= 1 => genCalls[1].kind = "batch"
    /\ \A j \in 2..Len(genCalls) :
          genCalls[j].kind = "single" /\ genCalls[j].index = j - 1
    /\ genMode = "fallback" =>
          (Len(genCalls) >= 1 /\ genCalls[1].outcome = "threw")
    /\ genPc = "returned" =>
          /\ Len(genCalls) \in {1, Len(opportunities) + 1}
          /\ genMode = "fallback" => Len(genCalls) = Len(opportunities) + 1
          /\ genMode = "batch" => Len(genCalls) = 1

\* C9: no subject's failure blocks another's inclusion. In batch mode a
\* subject is returned, with the slice under its own delimiter parsed, if its
\* delimiter is in the reply, and omitted if it is missing; in fallback mode
\* a subject is returned if its call succeeded and omitted if it threw.
C9_FailureIsolation ==
    genPc = "returned" =>
        \A i \in 1..Len(opportunities) :
            /\ Cardinality(EntriesOf(i)) <= 1
            /\ genMode = "batch" =>
                  /\ DelimiterPresent(i) =>
                        \E e \in EntriesOf(i) :
                            /\ content[e].analysis.symbol = opportunities[i].symbol
                            /\ content[e].analysis.rawAnalysis.from = OwnSection(i)
                  /\ ~DelimiterPresent(i) => EntriesOf(i) = {}
            /\ genMode = "fallback" =>
                  /\ SingleReplied(i) =>
                        \E e \in EntriesOf(i) :
                            content[e].analysis.symbol = opportunities[i].symbol
                  /\ ~SingleReplied(i) => EntriesOf(i) = {}

---------------------------------------------------------------------------
\* Claims about getEarningsOpportunities

\* The calendar has been received and filtered.
CalendarFiltered ==
    \/ pipePc \in {"bulkCall", "returned"}
    \/ pipePc = "rejected" /\ pipeError.stage = "volatility"

\* Whole days from today's date (the date of fromDate) to the event's date.
DaysOut(event) == event.date - (fromDate \div TicksPerDay)

\* C4: the calendar fetch fails the run only once the retry budget of the
\* HTTP client is spent: a run that failed on a 429, a 5xx or a network
\* failure of the calendar request has issued retries + 1 fetches.
C4_CalendarFetchRetried ==
    ( /\ pipePc = "rejected"
      /\ pipeError.stage = "calendar"
      /\ (calResponse.kind = "network" \/ RetryableStatus(calResponse.status)) )
    => calFetches = DefaultRetries + 1

\* C5: a run rejects only when the calendar fetch fails; once the calendar
\* has been received it returns a list, also when the bulk volatility call
\* fails.
C5_OnlyCalendarFailureIsFatal ==
    pipePc = "rejected" => pipeError.stage = "calendar"

\* C6: the list returned has at most 5 items, each with volatility data and
\* qualityScore > 5, in non-increasing order of qualityScore.
C6_FinalOutputBounded ==
    pipePc = "returned" =>
        /\ Len(pipeResult) <= 5
        /\ \A j \in 1..Len(pipeResult) :
              /\ pipeResult[j].volatilityData.kind = "data"
              /\ pipeResult[j].qualityScore > 5
        /\ \A j \in 1..(Len(pipeResult) - 1) :
              pipeResult[j].qualityScore >= pipeResult[j + 1].qualityScore

\* C6's case: more than 5 prescreened events have volatility data, and the
\* 5 returned differ in score.
C6_Witness ==
    /\ pipePc = "returned"
    /\ Len(pipeResult) = 5
    /\ Cardinality({ j \in 1..Len(prescreened) :
                       VolatilityOf(bulk, prescreened[j].symbol).kind = "data" }) > 5
    /\ \E j \in 1..Len(prescreened) :
          VolatilityOf(bulk, prescreened[j].symbol).kind = "null"
    /\ pipeResult[1].qualityScore > pipeResult[5].qualityScore

\* C7: the time-window filter keeps exactly the universe events 1 to 45 days
\* out (0 and 46 days out are excluded, 1 and 45 included), in calendar
\* order; with none left the run returns [] and makes no bulk call.
C7_TimeWindowFilter ==
    CalendarFiltered =>
        /\ universeFiltered =
              SelectSeqBy(earningsCalendar,
                          { e \in Range(earningsCalendar) : e.symbol \in STOCK_UNIVERSE })
        /\ timeWindowFiltered =
              SelectSeqBy(universeFiltered,
                          { e \in Range(universeFiltered) :
                              1 <= DaysOut(e) /\ DaysOut(e) <= 45 })
        /\ timeWindowFiltered = <<>> =>
              (pipePc = "returned" /\ pipeResult = <<>> /\ bulkCalls = <<>>)
        /\ timeWindowFiltered # <<>> => Len(bulkCalls) = 1

\* C7's case: universe events 0 and 46 days out and no other, so the run
\* returns [] without a bulk call.
C7_Witness ==
    /\ pipePc = "returned"
    /\ timeWindowFiltered = <<>>
    /\ \E e \in Range(universeFiltered) : DaysOut(e) = 0
    /\ \E e \in Range(universeFiltered) : DaysOut(e) = 46
    /\ pipeResult = <<>>
    /\ bulkCalls = <<>>

\* C7's other case: events 1 and 45 days out are kept.
C7_Kept ==
    /\ CalendarFiltered
    /\ \E e \in Range(timeWindowFiltered) : DaysOut(e) = 1
    /\ \E e \in Range(timeWindowFiltered) : DaysOut(e) = 45

---------------------------------------------------------------------------
\* validateAnalysis and parseAnalysisResponse: claims

Reported(issue) == \E i \in 1..Len(validation.issues) : validation.issues[i] = issue

\* A sentiment score that is present and within [1, 10].
SentimentInRange(sentimentScore) ==
    sentimentScore.kind = "number" /\ sentimentScore.value >= 1 /\ sentimentScore.value <= 10

\* C11: validateAnalysis runs its four checks independently and accumulates
\* their issues: isValid is true exactly when no issue is reported; each of
\* the first three issues is reported exactly when its own check fails,
\* whatever the other checks find, and the contradiction of a sentiment of 1
\* to 4 with STRONGLY CONSIDER is reported whatever else is; no issue is
\* reported twice. {sentimentScore: 3, recommendation: 'STRONGLY CONSIDER',
\* strategies: []} gives exactly 'No strategies provided' and 'Inconsistent
\* sentiment and recommendation'; a payload that passes every check gives
\* isValid = true and no issues.
C11_ValidateAccumulatesIssues ==
    valPc = "returned" =>
        /\ validation.isValid <=> (validation.issues = <<>>)
        /\ Reported("Invalid sentiment score") <=> ~SentimentInRange(analysis.sentimentScore)
        /\ Reported("Invalid recommendation format")
             <=> (analysis.recommendation \notin CanonicalRecommendations)
        /\ Reported("No strategies provided")
             <=> (analysis.strategies.kind = "undefined" \/ analysis.strategies.items = <<>>)
        /\ ( /\ analysis.sentimentScore.kind = "number"
             /\ analysis.sentimentScore.value \in 1..4
             /\ analysis.recommendation = "STRONGLY CONSIDER" )
             => Reported("Inconsistent sentiment and recommendation")
        /\ Reported("Inconsistent sentiment and recommendation")
             => analysis.recommendation = "STRONGLY CONSIDER"
        /\ \A i, j \in 1..Len(validation.issues) :
              validation.issues[i] = validation.issues[j] => i = j
        /\ ( /\ analysis.sentimentScore = NumberSentiment(3)
             /\ analysis.recommendation = "STRONGLY CONSIDER"
             /\ analysis.strategies = StrategyArray(<<>>) )
             => /\ ~validation.isValid
                /\ Len(validation.issues) = 2
                /\ Reported("No strategies provided")
                /\ Reported("Inconsistent sentiment and recommendation")
        /\ ( /\ SentimentInRange(analysis.sentimentScore)
             /\ analysis.recommendation \in CanonicalRecommendations
             /\ analysis.strategies.kind = "array" /\ analysis.strategies.items # <<>>
             /\ ~(analysis.sentimentScore.value < 5
                  /\ analysis.recommendation = "STRONGLY CONSIDER") )
             => validation.isValid /\ validation.issues = <<>>

\* C11's case: the payload of the test has been validated and two checks
\* failed at once.
C11_Witness ==
    /\ valPc = "returned"
    /\ analysis.sentimentScore = NumberSentiment(3)
    /\ analysis.recommendation = "STRONGLY CONSIDER"
    /\ analysis.strategies = StrategyArray(<<>>)
    /\ Len(validation.issues) = 2

\* The pieces of the text that was parsed.
ParsedPieces == responseText.pieces

\* A canonical phrase and a way of writing it that the patterns accept.
WrittenAs(canonical, phrase) ==
    \/ canonical = phrase /\ canonical \in CanonicalRecommendations
    \/ canonical = "STAY AWAY" /\ phrase = "stay away"
    \/ canonical = "NEUTRAL" /\ phrase = "Neutral"

\* The loosest sentiment pattern has something to match: the word
\* "sentiment" with digits somewhere after it.
SentimentPresent ==
    \E i, j \in 1..Len(ParsedPieces) :
        i < j /\ ParsedPieces[i].word /\ ParsedPieces[j].number >= 0

PhrasePresent == \E k \in 1..Len(ParsedPieces) : ParsedPieces[k].phrase # ""

\* C12: parseAnalysisResponse returns for every text (and for a text that is
\* not a string); the recommendation is one of the three canonical values,
\* NEUTRAL when the text holds no canonical phrase and otherwise a phrase of
\* the text in upper case; the sentiment score is null, not zero, when no
\* sentiment pattern matches and a number of the text when one does; the
\* strategies are taken whatever the other two extractions find; rawAnalysis
\* is the input.
C12_ParseDegradesToDefaults ==
    parsePc = "returned" =>
        /\ parsed.rawAnalysis = responseText
        /\ parsed.fields.recommendation \in CanonicalRecommendations
        /\ ~PhrasePresent => parsed.fields.recommendation = "NEUTRAL"
        /\ PhrasePresent =>
              \E k \in 1..Len(ParsedPieces) :
                  WrittenAs(parsed.fields.recommendation, ParsedPieces[k].phrase)
        /\ ~SentimentPresent => parsed.fields.sentimentScore = NullSentiment
        /\ SentimentPresent =>
              \E j \in 1..Len(ParsedPieces) :
                  /\ ParsedPieces[j].number >= 0
                  /\ parsed.fields.sentimentScore = NumberSentiment(ParsedPieces[j].number)
        /\ Len(parsed.fields.strategies)
             = Cardinality({ k \in 1..Len(ParsedPieces) : ParsedPieces[k].name # "" })

\* C12's case: a text that mentions sentiment without a score and holds a
\* phrase written in lower case has been parsed: the score stayed null and
\* the recommendation was still extracted.
C12_Witness ==
    /\ parsePc = "returned"
    /\ \E k \in 1..Len(ParsedPieces) : ParsedPieces[k].word
    /\ parsed.fields.sentimentScore = NullSentiment
    /\ parsed.fields.recommendation = "STAY AWAY"

---------------------------------------------------------------------------
\* calculatePrescreenScore and calculateQualityScore: claims

\* The event that differs from psEvent in its revenueEstimate only.
WithRevenue(event, revenueEstimate) == [event EXCEPT !.revenueEstimate = revenueEstimate]

\* C13: calculatePrescreenScore is monotone in revenue: an event that differs
\* from the scored one only by a higher revenueEstimate, with the same
\* daysToEarnings, scores at least as much, for every pair of revenue values,
\* 0 included.
C13_PrescreenMonotoneInRevenue ==
    (psPc = "returned" /\ psEvent.hasRevenue) =>
        \A higher \in RevenueValues :
            higher > psEvent.revenueEstimate =>
                CalculatePrescreenScore(WithRevenue(psEvent, higher), psDays) >= psScore

\* The instance of the scored opportunity with no volatility data.
WithoutData(opportunity) == [opportunity EXCEPT !.volatilityData = NullVolatility]

\* Full volatility data: every field the score reads is there.
FullData(volatility) ==
    /\ volatility.kind = "data"
    /\ volatility.historicalVolatility > 0
    /\ volatility.volatilityScore > 0
    /\ volatility.optionsVolume > 0
    /\ volatility.hasRsi

WithoutRsi(opportunity) ==
    [opportunity EXCEPT !.volatilityData.hasRsi = FALSE, !.volatilityData.rsi = 0]

\* What the technical band added to the local score, doubled.
TechnicalContribution == qsScore.sum - QualitySum(WithoutRsi(qsOpportunity))

\* C17: the technical band is awarded whenever an RSI value is present: a
\* present RSI above 70 or below 30 (0 included) adds 15, one above 60 or
\* below 40 otherwise adds 7.5, any other present RSI adds 3, and only an
\* absent RSI adds 0.
C17_TechnicalBandWheneverRsiPresent ==
    (qsPc = "returned" /\ qsOpportunity.volatilityData.kind = "data") =>
        LET rsi == qsOpportunity.volatilityData.rsi IN
        IF qsOpportunity.volatilityData.hasRsi
          THEN TechnicalContribution =
                  (IF rsi > 70 \/ rsi < 30 THEN 30
                   ELSE IF rsi > 60 \/ rsi < 40 THEN 15
                   ELSE 6)
          ELSE TechnicalContribution = 0

---------------------------------------------------------------------------
\* FinnhubAPI.makeRequest: backoff

\* A fetch outcome the claim names: 429, 5xx or a network failure.
Transient(outcome) ==
    \/ outcome.kind = "network"
    \/ outcome.kind = "response" /\ RetryableStatus(outcome.status)

\* The least backoff before the retry that follows attempt k.
MinBackoff(k) == baseDelayMs * Pow2(k)

\* C15: a 429, a 5xx or a network failure on attempt k < retries is followed
\* by a backoff and another attempt; the backoff after attempt k is between
\* baseDelayMs * 2^k and baseDelayMs * 2^k + 100, so the least backoff grows
\* strictly from one retry to the next; exactly one backoff precedes every
\* attempt after the first, and none is waited on attempt k = retries.
C15_BackoffBounds ==
    /\ Len(delays) = attempt
    /\ attempt <= retries
    /\ Len(mrLog) \in {attempt, attempt + 1}
    /\ \A k \in 0..(Len(delays) - 1) :
          /\ delays[k + 1] >= MinBackoff(k)
          /\ delays[k + 1] <= MinBackoff(k) + 100
          /\ MinBackoff(k + 1) > MinBackoff(k)
    /\ mrPc = "backoff" => attempt < retries
    /\ (Len(mrLog) = attempt + 1 /\ Transient(LastOutcome) /\ attempt < retries)
          => mrPc = "backoff"
    /\ (Len(mrLog) = attempt + 1 /\ attempt = retries) => MRSettled

\* C15's case: a 429 on attempt 0 and a network failure on attempt 1 were
\* each followed by a backoff, and attempt 2 was made.
C15_Witness ==
    /\ Len(mrLog) >= 3
    /\ mrLog[1].status = 429
    /\ mrLog[2].kind = "network"
    /\ Len(delays) >= 2

---------------------------------------------------------------------------
\* getEarningsOpportunities: the bulk call and the days to earnings

\* The run got past the empty-window return.
ReachedEnrichment ==
    pipePc \in {"bulkCall", "returned", "rejected"} /\ timeWindowFiltered # <<>>

\* C16: a run that reaches enrichment calls the bulk volatility collaborator
\* exactly once, after the calendar fetch has completed, with at most 8
\* symbols; they are the symbols of the top-ranked time-window-filtered
\* events: no event left out of the call has a strictly higher prescreenScore
\* than an event included in it. No run calls it more than once.
C16_OneBulkCallTopRanked ==
    /\ Len(bulkCalls) <= 1
    /\ bulkCalls # <<>> =>
          /\ calFetches = 1
          /\ Ok(calResponse) /\ calResponse.jsonOk
          /\ pipePc \in {"bulkCall", "returned", "rejected"}
    /\ ReachedEnrichment =>
          /\ Len(bulkCalls) = 1
          /\ Len(bulkCalls[1]) <= 8
          /\ Len(bulkCalls[1]) = Len(prescreened)
          /\ \A j \in 1..Len(prescreened) : bulkCalls[1][j] = prescreened[j].symbol
          /\ Len(scored) = Len(timeWindowFiltered)
          /\ \A j \in 1..Len(scored) :
                /\ scored[j].symbol = timeWindowFiltered[j].symbol
                /\ scored[j].date = timeWindowFiltered[j].date
          /\ Range(prescreened) \subseteq Range(scored)
          /\ Cardinality(Range(prescreened)) = Len(prescreened)
          /\ Len(scored) <= 8 => Len(prescreened) = Len(scored)
          /\ Len(scored) > 8 => Len(prescreened) = 8
          /\ \A out \in Range(scored) \ Range(prescreened), in \in Range(prescreened) :
                out.prescreenScore <= in.prescreenScore

\* C16's case: more than 8 events passed the time-window filter, the bulk
\* call was issued, and an event left out of it scores strictly less than
\* one that comes later in the calendar and is included.
C16_Witness ==
    /\ ReachedEnrichment
    /\ Len(scored) > 8
    /\ Len(bulkCalls) = 1
    /\ \E i, j \in 1..Len(scored) :
          /\ i < j
          /\ scored[i] \notin Range(prescreened)
          /\ scored[j] \in Range(prescreened)
          /\ scored[i].prescreenScore < scored[j].prescreenScore

---------------------------------------------------------------------------
\* validateAnalysis: the consistency check

\* C18: for every analysis whose sentimentScore is a number below 5 (0
\* included) and whose recommendation is STRONGLY CONSIDER, validateAnalysis
\* reports 'Inconsistent sentiment and recommendation', whether or not
\* 'Invalid sentiment score' is reported too.
C18_ContradictionAlwaysReported ==
    ( /\ valPc = "returned"
      /\ analysis.sentimentScore.kind = "number"
      /\ analysis.sentimentScore.value < 5
      /\ analysis.recommendation = "STRONGLY CONSIDER" )
      => Reported("Inconsistent sentiment and recommendation")

---------------------------------------------------------------------------
\* getMarketContext: the regime

\* A quote was fetched and parsed, and the context built from it returned.
QuoteReturned == ctxPc = "returned" /\ ctxBody.kind = "quote"

---------------------------------------------------------------------------
\* getEarningsOpportunities: daysToEarnings of what is returned

\* C20: every opportunity returned has 1 <= daysToEarnings <= 45, and the
\* daysToEarnings attached at prescreen time equals the value the time-window
\* filter computed from the clock read on entry, however far the clock
\* advanced between the two readings.
C20_ReturnedDaysWithinWindow ==
    pipePc = "returned" =>
        \A j \in 1..Len(pipeResult) :
            /\ pipeResult[j].daysToEarnings >= 1
            /\ pipeResult[j].daysToEarnings <= 45
            /\ pipeResult[j].daysToEarnings = DaysToEarnings(pipeResult[j], fromDate)

---------------------------------------------------------------------------
\* generateTradingIdeas: the list returned

\* C21: in batch and in fallback mode the list returned is an
\* order-preserving sub-list of the input: every entry's opportunity is one of
\* the inputs and its analysis carries that opportunity's symbol, an input
\* position gives at most one entry, and the entries come in input order
\* whatever the order of the sections of the reply; an empty input gives an
\* empty list and no generative call that succeeded.
C21_OrderPreservingSubList ==
    genPc = "returned" =>
        /\ \A e \in 1..Len(content) :
              /\ content[e].opportunity \in 1..Len(opportunities)
              /\ content[e].analysis.symbol = opportunities[content[e].opportunity].symbol
        /\ \A e, f \in 1..Len(content) :
              e < f => content[e].opportunity < content[f].opportunity
        /\ opportunities = <<>> =>
              /\ content = <<>>
              /\ \A c \in 1..Len(genCalls) : genCalls[c].outcome # "replied"

\* C21's case: the batch reply holds the sections of two subjects in the
\* reverse of the input order, and both were returned.
C21_Witness ==
    /\ genPc = "returned"
    /\ genMode = "batch"
    /\ Len(opportunities) >= 2
    /\ opportunities[1].symbol = "AAPL"
    /\ opportunities[2].symbol = "MSFT"
    /\ Len(genReply) >= 2
    /\ genReply[1] = "MSFT"
    /\ genReply[2] = "AAPL"
    /\ Len(content) >= 2

====
